---- MODULE Spec2Model ----
(***************************************************************************)
(* A model of the dc_federated backend: the WorkerManager registry         *)
(* (_worker_manager.py), the handlers and the long-poll notification       *)
(* engine of the DCFServer (dcf_server.py), and the ZeroMQ request/reply   *)
(* interface between the server process and the model process              *)
(* (zmq_interface.py).                                                     *)
(***************************************************************************)
EXTENDS Naturals, Sequences, FiniteSets, TLC

\* ------------------------------------------------------------------ bounds
\* time.time() values the clock may take: 0..MaxTime
MaxTime == 1
\* global model versions: 0..MaxVersion
MaxVersion == 1
\* wait requests accepted over a run
MaxReq == 3
\* tasks of the server process that call the model process, one call each
MaxTasks == 2
\* requests sent to the model process by a client that is not the interface
MaxForeign == 1
\* documents in the keys database file, and lines in the key list file,
\* when the server starts
MaxDocs == 2

\* ------------------------------------------------------------ input values
\* public keys VerifyKey() accepts (64 hex characters)
ValidKeys == {"k1", "k2"}
\* a public key string VerifyKey() rejects; also used as an unknown worker id
BadKey == "bad"
KeyStrs == ValidKeys \cup {BadKey}
\* signed phrases: a value k of ValidKeys stands for a hex message signed by
\* the private key of k; "forged" is hex text no key verifies; "nonhex" is
\* text HexEncoder cannot decode
SignedPhrases == ValidKeys \cup {"forged", "nonhex"}
Versions == 0..MaxVersion
\* model updates a worker sends
Updates == {"upd1", "upd2"}
\* the hex signature by the private key of k over the sha256 digest of u
SignUpdate(k, u) ==
    IF k = "k1" THEN (IF u = "upd1" THEN "k1:upd1" ELSE "k1:upd2")
    ELSE (IF u = "upd1" THEN "k2:upd1" ELSE "k2:upd2")
SignedUpdates == {SignUpdate(k, u) : k \in ValidKeys, u \in Updates}
\* zlib.compress(u) and zlib.decompress(p); "corrupt" is a payload
\* zlib.decompress raises on
Compress(u) == <<"zlib", u>>
IsCompressed(p) == p \in {Compress(u) : u \in Updates}
Decompress(p) == p[2]
Payloads == {Compress(u) : u \in Updates} \cup {<<"corrupt">>}

INVALID_WORKER == "INVALID_WORKER"
UNREGISTERED_WORKER == "UNREGISTERED_WORKER"
SERIOUSLY_WRONG == "SERIOUSLY_WRONG"
EXCEPTION == "EXCEPTION"
QUEUE == "QUEUE"
NONE == "NONE"
ERROR_TEXT == "ERROR_TEXT"
GLOBAL_MODEL == "GLOBAL_MODEL"
UPDATE_STATUS == "UPDATE_STATUS"
GLOBAL_MODEL_UPDATED_STRING == "changed"
EXISTING_REQUEST_TERMINATED == "superseded"
REMOVED_MARKER == "removed"
StopIteration == "StopIteration"

\* the id generate_id_for_worker makes at clock value t in unsafe mode:
\* sha224(str(time.time())) + '_unauthenticated', a function of the time only
UnauthId(t) == <<"u0", "u1", "u2", "u3">>[t + 1]
UnauthIds == {UnauthId(t) : t \in 0..MaxTime}
WorkerIds == KeyStrs \cup UnauthIds

VARIABLES
    do_public_key_auth,     \* WorkerManager.do_public_key_auth
    public_keys,            \* WorkerManager.public_keys (its key set)
    allowed_workers,        \* WorkerManager.allowed_workers (a list)
    registered_workers,     \* WorkerManager.registered_workers (a dict)
    public_keys_db,         \* WorkerManager.public_keys_db: [attached, docs]
    clock,                  \* the value time.time() returns
    model_version_req_dict, \* DCFServer.model_version_req_dict: id -> list
    greenlets,              \* every (Greenlet, Queue) pair made so far
    killers,                \* handlers suspended in old_g.kill()
    global_model_version,   \* the application's current model version
    seriously_wrong,        \* message_seriously_wrong was called
    last,                   \* the last call: operation, arguments, result
                            \* and the application callbacks it invoked
    bridge_socket,          \* ZQMInterfaceServer.socket: the REQ socket the
                            \* last _send made (0: none yet)
    req_sockets,            \* every REQ socket connected to the model process
    rep_queue,              \* requests waiting at the REP socket, in order
    rep_state,              \* the REP socket: "recv", "send" or "failed"
    callers,                \* the tasks that call through the interface
    subprocess,             \* the module body of subprocess_dcf_server.py:
                            \* its position and what it has done so far
    app_workers             \* the application: the workers whose last
                            \* callback was register_worker_callback

wmvars == <<do_public_key_auth, public_keys, allowed_workers,
            registered_workers, public_keys_db>>
engvars == <<model_version_req_dict, greenlets, killers, global_model_version,
             seriously_wrong>>
brvars == <<bridge_socket, req_sockets, rep_queue, rep_state, callers,
            subprocess>>
vars == <<do_public_key_auth, public_keys, allowed_workers, registered_workers,
          public_keys_db, clock, model_version_req_dict, greenlets, killers,
          global_model_version, seriously_wrong, last, bridge_socket,
          req_sockets, rep_queue, rep_state, callers, subprocess,
          app_workers>>

\* ------------------------------------------------------------- list helpers
InList(x, s) == \E i \in 1..Len(s) : s[i] = x
IndexOf(x, s) == CHOOSE i \in 1..Len(s) : s[i] = x /\ \A j \in 1..(i - 1) : s[j] # x
\* list.remove(x): drops the first occurrence
ListRemove(s, x) ==
    LET i == IndexOf(x, s) IN SubSeq(s, 1, i - 1) \o SubSeq(s, i + 1, Len(s))
\* list.pop(): drops the last element
ListPop(s) == SubSeq(s, 1, Len(s) - 1)
ListLast(s) == s[Len(s)]
\* TinyDB.remove(doc_ids of the documents whose key is k)
DbRemoveKey(docs, k) == SelectSeq(docs, LAMBDA d : d # k)
\* d[k] = v on a dict
DictSet(d, k, v) == [x \in (DOMAIN d) \cup {k} |-> IF x = k THEN v ELSE d[x]]

\* ---------------------------------------------------------- WorkerManager
\* the WorkerManager object as a value
WM == [auth |-> do_public_key_auth, pk |-> public_keys, aw |-> allowed_workers,
       rw |-> registered_workers, db |-> public_keys_db]

\* VerifyKey(public_key_str.encode(), encoder=HexEncoder) does not raise
IsValidKey(k) == k \in ValidKeys
\* VerifyKey.verify(signed_message) does not raise BadSignatureError
Verifies(k, s) == s = k

is_worker_allowed(wm, worker_id) == InList(worker_id, wm.aw)

is_worker_registered(wm, worker_id) ==
    worker_id \in DOMAIN wm.rw /\ wm.rw[worker_id]

\* the list of {worker id, registration status} dicts, one per key of
\* registered_workers
get_worker_list(wm) ==
    {[worker_id |-> w, registered |-> wm.rw[w]] : w \in DOMAIN wm.rw}

\* add_public_key that stores the key without constructing a VerifyKey
add_public_key_no_validation(wm, k) ==
    IF ~wm.auth THEN [wm |-> wm, ok |-> TRUE]
    ELSE [wm |-> [wm EXCEPT !.pk = @ \cup {k}], ok |-> TRUE]

\* [wm, ok]: an exception of VerifyKey is caught and gives ok = FALSE
add_public_key(wm, k) ==
    IF ~wm.auth THEN [wm |-> wm, ok |-> TRUE]
    ELSE IF k \in wm.pk THEN [wm |-> wm, ok |-> TRUE]
    ELSE IF IsValidKey(k) THEN [wm |-> [wm EXCEPT !.pk = @ \cup {k}], ok |-> TRUE]
    ELSE [wm |-> wm, ok |-> FALSE]

delete_public_key(wm, k) ==
    IF ~wm.auth THEN wm
    ELSE IF k \in wm.pk THEN [wm EXCEPT !.pk = @ \ {k}]
    ELSE wm

generate_id_for_worker(wm, k, t) ==
    IF wm.auth THEN k ELSE UnauthId(t)

\* _add_worker without the membership test of line 199
_add_worker_no_membership_test(wm, k, t) ==
    LET worker_id == generate_id_for_worker(wm, k, t) IN
    IF wm.auth /\ k \notin wm.pk
    THEN [wm |-> wm, id |-> SERIOUSLY_WRONG, ok |-> FALSE]
    ELSE [wm |-> [wm EXCEPT !.aw = Append(@, worker_id),
                            !.rw = DictSet(@, worker_id, FALSE),
                            !.db = IF @.attached
                                   THEN [@ EXCEPT !.docs = Append(@, k)]
                                   ELSE @],
          id |-> worker_id, ok |-> TRUE]

_add_worker(wm, k, t) ==
    LET worker_id == generate_id_for_worker(wm, k, t) IN
    IF wm.auth /\ k \notin wm.pk
    THEN [wm |-> wm, id |-> SERIOUSLY_WRONG, ok |-> FALSE]
    ELSE IF ~InList(worker_id, wm.aw)
    THEN [wm |-> [wm EXCEPT !.aw = Append(@, worker_id),
                            !.rw = DictSet(@, worker_id, FALSE),
                            !.db = IF @.attached
                                   THEN [@ EXCEPT !.docs = Append(@, k)]
                                   ELSE @],
          id |-> worker_id, ok |-> TRUE]
    ELSE [wm |-> wm, id |-> worker_id, ok |-> FALSE]

add_worker(wm, k, t) ==
    LET a == add_public_key(wm, k) IN
    IF wm.auth /\ ~a.ok
    THEN [wm |-> wm, id |-> INVALID_WORKER, ok |-> FALSE]
    ELSE _add_worker(IF wm.auth THEN a.wm ELSE wm, k, t)

\* authenticate_worker without the mode test of line 393: the phrase is
\* verified in unsafe mode too
authenticate_worker_ignores_mode(wm, k, s) ==
    IF k \notin wm.pk THEN [raised |-> FALSE, ok |-> FALSE]
    ELSE IF s = "nonhex" THEN [raised |-> TRUE, ok |-> FALSE]
    ELSE [raised |-> FALSE, ok |-> Verifies(k, s)]

\* authenticate_worker without the lookup of line 399: the phrase is
\* verified under the key the caller presents
authenticate_worker_no_lookup(wm, k, s) ==
    IF ~wm.auth THEN [raised |-> FALSE, ok |-> TRUE]
    ELSE IF s = "nonhex" THEN [raised |-> TRUE, ok |-> FALSE]
    ELSE [raised |-> FALSE, ok |-> Verifies(k, s)]

\* [raised, ok]: raised when an exception other than BadSignatureError escapes
authenticate_worker(wm, k, s) ==
    IF ~wm.auth THEN [raised |-> FALSE, ok |-> TRUE]
    ELSE IF k \notin wm.pk THEN [raised |-> FALSE, ok |-> FALSE]
    ELSE IF s = "nonhex" THEN [raised |-> TRUE, ok |-> FALSE]
    ELSE [raised |-> FALSE, ok |-> Verifies(k, s)]

\* authenticate_and_add_worker that adds the key through add_worker before
\* it looks at the outcome of the authentication
authenticate_and_add_worker_adds_first(wm, k, s, t) ==
    LET r == add_worker(wm, k, t) IN
    IF authenticate_worker(wm, k, s).ok
    THEN r
    ELSE [wm |-> r.wm, id |-> INVALID_WORKER, ok |-> FALSE]

\* authenticate_and_add_worker that enrols a key it does not know when the
\* phrase verifies under the key presented
authenticate_and_add_worker_enrols(wm, k, s, t) ==
    IF wm.auth /\ k \notin wm.pk /\ Verifies(k, s)
    THEN add_worker(wm, k, t)
    ELSE IF authenticate_worker(wm, k, s).ok
    THEN _add_worker(wm, k, t)
    ELSE [wm |-> wm, id |-> INVALID_WORKER, ok |-> FALSE]

authenticate_and_add_worker(wm, k, s, t) ==
    IF authenticate_worker(wm, k, s).ok
    THEN _add_worker(wm, k, t)
    ELSE [wm |-> wm, id |-> INVALID_WORKER, ok |-> FALSE]

\* set_registration_status without the allowed test of line 230
set_registration_status_no_allowed_test(wm, worker_id, should_register) ==
    [wm |-> [wm EXCEPT !.rw = DictSet(@, worker_id, should_register)],
     id |-> worker_id]

set_registration_status(wm, worker_id, should_register) ==
    IF InList(worker_id, wm.aw)
    THEN [wm |-> [wm EXCEPT !.rw = DictSet(@, worker_id, should_register)],
          id |-> worker_id]
    ELSE [wm |-> wm, id |-> INVALID_WORKER]

\* remove_worker without the delete_public_key call of line 259
remove_worker_keeps_key(wm, worker_id) ==
    IF InList(worker_id, wm.aw)
    THEN LET w1 == [wm EXCEPT !.aw = ListRemove(@, worker_id)]
             w3 == IF w1.db.attached
                   THEN [w1 EXCEPT !.db.docs = DbRemoveKey(@, worker_id)]
                   ELSE w1
         IN [wm |-> w3, id |-> worker_id]
    ELSE [wm |-> wm, id |-> INVALID_WORKER]

remove_worker(wm, worker_id) ==
    IF InList(worker_id, wm.aw)
    THEN LET w1 == [wm EXCEPT !.aw = ListRemove(@, worker_id)]
             w2 == delete_public_key(w1, worker_id)
             w3 == IF w2.db.attached
                   THEN [w2 EXCEPT !.db.docs = DbRemoveKey(@, worker_id)]
                   ELSE w2
         IN [wm |-> w3, id |-> worker_id]
    ELSE [wm |-> wm, id |-> INVALID_WORKER]

\* the elements of a list, and the lists of at most n elements of S
ListSet(s) == {s[i] : i \in 1..Len(s)}
ListsUpTo(S, n) == UNION {[1..m -> S] : m \in 0..n}
\* the orders in which a for loop can go through set(S)
Orderings(S) == {o \in [1..Cardinality(S) -> S] : ListSet(o) = S}

\* init_db without the purge of line 127: the documents found stay
init_db_keeps_docs(wm, docs) ==
    [wm |-> [wm EXCEPT !.db = [attached |-> TRUE, docs |-> docs]],
     keys_to_load |-> docs]

\* init_db on a database file that holds docs (none when the file is new):
\* the database is attached, its keys are returned and its documents purged
init_db(wm, docs) ==
    [wm |-> [wm EXCEPT !.db = [attached |-> TRUE, docs |-> <<>>]],
     keys_to_load |-> docs]

\* the loop of __init__ that stops at the first key add_worker rejects
RECURSIVE LoadKeys_stops_at_invalid(_, _)
LoadKeys_stops_at_invalid(wm, order) ==
    IF order = <<>> THEN wm
    ELSE LET r == add_worker(wm, Head(order), 0) IN
         IF r.id = INVALID_WORKER THEN wm
         ELSE LoadKeys_stops_at_invalid(r.wm, Tail(order))

\* the loop of __init__ over the keys to load
RECURSIVE LoadKeys(_, _)
LoadKeys(wm, order) ==
    IF order = <<>> THEN wm
    ELSE LoadKeys(add_worker(wm, Head(order), 0).wm, Tail(order))

\* WorkerManager.__init__: the objects it can construct (one per order of
\* the loop over the set of keys); key_list is the lines of the key list
\* file, <<>> without one, and docs the keys in the database file
WorkerManager_init(server_mode_safe, key_list, load_last_session_workers, docs) ==
    LET w0 == [auth |-> server_mode_safe, pk |-> {}, aw |-> <<>>, rw |-> <<>>,
               db |-> [attached |-> FALSE, docs |-> <<>>]]
    IN IF ~server_mode_safe THEN {w0}
       ELSE LET l == IF load_last_session_workers THEN init_db(w0, docs)
                     ELSE [wm |-> w0, keys_to_load |-> <<>>]
                keys_to_load == l.keys_to_load \o key_list
            IN {LoadKeys(l.wm, o) : o \in Orderings(ListSet(keys_to_load))}

\* the fields of the WorkerManager after a call left it as wm
SetWM(wm) ==
    /\ do_public_key_auth' = wm.auth
    /\ public_keys' = wm.pk
    /\ allowed_workers' = wm.aw
    /\ registered_workers' = wm.rw
    /\ public_keys_db' = wm.db

\* a call, its result and the application callbacks it invoked, in order
CallCb(op, arg, sig, val, ret, ok, cb) ==
    [op |-> op, arg |-> arg, sig |-> sig, val |-> val, ret |-> ret, ok |-> ok,
     cb |-> cb, data |-> <<>>]

Call(op, arg, sig, val, ret, ok) == CallCb(op, arg, sig, val, ret, ok, <<>>)

\* ------------------------------------------------- WorkerManager interface
AddWorker(k) ==
    /\ LET r == add_worker(WM, k, clock) IN
        /\ SetWM(r.wm)
        /\ last' = Call("add_worker", k, NONE, FALSE, r.id, r.ok)
    /\ UNCHANGED <<engvars, clock, brvars, app_workers>>

AuthenticateWorker(k, s) ==
    /\ LET r == authenticate_worker(WM, k, s) IN
        last' = Call("authenticate_worker", k, s, FALSE,
                     IF r.raised THEN EXCEPTION ELSE NONE, r.ok)
    /\ UNCHANGED <<wmvars, engvars, clock, brvars, app_workers>>

AuthenticateAndAddWorker(k, s) ==
    /\ IF authenticate_worker(WM, k, s).raised
       THEN /\ last' = Call("authenticate_and_add_worker", k, s, FALSE, EXCEPTION, FALSE)
            /\ UNCHANGED wmvars
       ELSE LET r == authenticate_and_add_worker(WM, k, s, clock) IN
            /\ SetWM(r.wm)
            /\ last' = Call("authenticate_and_add_worker", k, s, FALSE, r.id, r.ok)
    /\ UNCHANGED <<engvars, clock, brvars, app_workers>>

SetRegistrationStatus(id, v) ==
    /\ LET r == set_registration_status(WM, id, v) IN
        /\ SetWM(r.wm)
        /\ last' = Call("set_registration_status", id, NONE, v, r.id, r.id # INVALID_WORKER)
    /\ UNCHANGED <<engvars, clock, brvars, app_workers>>

RemoveWorker(id) ==
    /\ LET r == remove_worker(WM, id) IN
        /\ SetWM(r.wm)
        /\ last' = Call("remove_worker", id, NONE, FALSE, r.id, r.id # INVALID_WORKER)
    /\ UNCHANGED <<engvars, clock, brvars, app_workers>>

\* time passes between two calls
Tick ==
    /\ clock < MaxTime
    /\ clock' = clock + 1
    /\ UNCHANGED <<wmvars, engvars, last, brvars, app_workers>>

\* ------------------------------------------------------- the application
\* the is_global_model_most_recent callback: the version is the current one
is_global_model_most_recent(version) == version = global_model_version

\* the application publishes a new global model
ModelUpdate ==
    /\ global_model_version < MaxVersion
    /\ global_model_version' = global_model_version + 1
    /\ UNCHANGED <<wmvars, brvars, app_workers, clock, model_version_req_dict, greenlets, killers,
                   seriously_wrong, last>>

\* ------------------------------------------------- the registry handlers
\* WorkerManager.verify_challenge(worker_id, signed_phrase): the signed
\* phrase verifies under the worker's stored key
verify_challenge(wm, worker_id, s) == authenticate_worker(wm, worker_id, s)

\* the application callbacks, as the entries a handler adds to its record
register_worker_callback(worker_id) == <<"register_worker_callback", worker_id>>
unregister_worker_callback(worker_id) == <<"unregister_worker_callback", worker_id>>
receive_worker_update_callback(worker_id, model_update) ==
    <<"receive_worker_update_callback", worker_id, model_update>>
return_global_model_callback == <<"return_global_model_callback">>

\* the application after the callbacks cb, in order: a worker joins on
\* register_worker_callback and leaves on unregister_worker_callback
RECURSIVE ApplyCallbacks(_, _)
ApplyCallbacks(workers, cb) ==
    IF cb = <<>> THEN workers
    ELSE LET c == Head(cb) IN
         ApplyCallbacks(IF c[1] = "register_worker_callback"
                        THEN workers \cup {c[2]}
                        ELSE IF c[1] = "unregister_worker_callback"
                        THEN workers \ {c[2]}
                        ELSE workers,
                        Tail(cb))

\* add_and_register_worker that invokes the register callback without the
\* is_worker_registered test of line 248
add_and_register_worker_always_calls_back(wm, k, s, t) ==
    LET r == authenticate_and_add_worker(wm, k, s, t) IN
    IF r.id = INVALID_WORKER THEN [wm |-> wm, id |-> INVALID_WORKER, cb |-> <<>>]
    ELSE [wm |-> set_registration_status(r.wm, r.id, TRUE).wm, id |-> r.id,
          cb |-> <<register_worker_callback(r.id)>>]

add_and_register_worker(wm, k, s, t) ==
    LET r == authenticate_and_add_worker(wm, k, s, t) IN
    IF r.id = INVALID_WORKER THEN [wm |-> wm, id |-> INVALID_WORKER, cb |-> <<>>]
    ELSE IF ~is_worker_registered(r.wm, r.id)
    THEN [wm |-> set_registration_status(r.wm, r.id, TRUE).wm, id |-> r.id,
          cb |-> <<register_worker_callback(r.id)>>]
    ELSE [wm |-> r.wm, id |-> r.id, cb |-> <<>>]

\* admin_add_worker without the set_registration_status call of lines
\* 303-304: the worker keeps the status add_worker gave it
admin_add_worker_ignores_status(wm, k, v, t) ==
    LET r == add_worker(wm, k, t) IN
    IF r.id = INVALID_WORKER
    THEN [wm |-> r.wm, ret |-> "unable to validate", cb |-> <<>>]
    ELSE IF ~r.ok THEN [wm |-> r.wm, ret |-> "already exists", cb |-> <<>>]
    ELSE [wm |-> r.wm, ret |-> r.id,
          cb |-> IF v THEN <<register_worker_callback(r.id)>> ELSE <<>>]

\* admin_add_worker without the success test of line 300
admin_add_worker_no_success_test(wm, k, v, t) ==
    LET r == add_worker(wm, k, t) IN
    IF r.id = INVALID_WORKER
    THEN [wm |-> r.wm, ret |-> "unable to validate", cb |-> <<>>]
    ELSE LET q == set_registration_status(r.wm, r.id, v) IN
         IF q.id = INVALID_WORKER
         THEN [wm |-> q.wm, ret |-> SERIOUSLY_WRONG, cb |-> <<>>]
         ELSE [wm |-> q.wm, ret |-> q.id,
               cb |-> IF v THEN <<register_worker_callback(q.id)>> ELSE <<>>]

admin_add_worker(wm, k, v, t) ==
    LET r == add_worker(wm, k, t) IN
    IF r.id = INVALID_WORKER
    THEN [wm |-> r.wm, ret |-> "unable to validate", cb |-> <<>>]
    ELSE IF ~r.ok THEN [wm |-> r.wm, ret |-> "already exists", cb |-> <<>>]
    ELSE LET q == set_registration_status(r.wm, r.id, v) IN
         IF q.id = INVALID_WORKER
         THEN [wm |-> q.wm, ret |-> SERIOUSLY_WRONG, cb |-> <<>>]
         ELSE [wm |-> q.wm, ret |-> q.id,
               cb |-> IF v THEN <<register_worker_callback(q.id)>> ELSE <<>>]

\* admin_delete_worker without the was_registered test of line 341
admin_delete_worker_always_calls_back(wm, worker_id) ==
    LET q == set_registration_status(wm, worker_id, FALSE)
        r == remove_worker(q.wm, q.id)
    IN [wm |-> r.wm, ret |-> r.id,
        cb |-> IF q.id # INVALID_WORKER
               THEN <<unregister_worker_callback(q.id)>> ELSE <<>>]

\* admin_delete_worker without the unregister callback of lines 340-343
admin_delete_worker_no_callback(wm, worker_id) ==
    LET q == set_registration_status(wm, worker_id, FALSE)
        r == remove_worker(q.wm, q.id)
    IN [wm |-> r.wm, ret |-> r.id, cb |-> <<>>]

admin_delete_worker(wm, worker_id) ==
    LET was_registered == is_worker_registered(wm, worker_id)
        q == set_registration_status(wm, worker_id, FALSE)
        r == remove_worker(q.wm, q.id)
    IN [wm |-> r.wm, ret |-> r.id,
        cb |-> IF q.id # INVALID_WORKER /\ was_registered
               THEN <<unregister_worker_callback(q.id)>> ELSE <<>>]

\* admin_set_worker_status that picks the callback by the requested status
\* alone, without the was_registered tests of lines 393 and 396
admin_set_worker_status_no_was_registered_test(wm, worker_id, v) ==
    LET q == set_registration_status(wm, worker_id, v)
    IN [wm |-> q.wm, id |-> q.id,
        cb |-> IF q.id = INVALID_WORKER THEN <<>>
               ELSE IF v THEN <<register_worker_callback(q.id)>>
               ELSE <<unregister_worker_callback(q.id)>>]

admin_set_worker_status(wm, worker_id, v) ==
    LET was_registered == is_worker_registered(wm, worker_id)
        q == set_registration_status(wm, worker_id, v)
    IN [wm |-> q.wm, id |-> q.id,
        cb |-> IF q.id = INVALID_WORKER THEN <<>>
               ELSE IF ~was_registered /\ v
               THEN <<register_worker_callback(q.id)>>
               ELSE IF was_registered /\ ~v
               THEN <<unregister_worker_callback(q.id)>>
               ELSE <<>>]

AddAndRegisterWorker(k, s) ==
    /\ IF authenticate_worker(WM, k, s).raised
       THEN /\ last' = Call("add_and_register_worker", k, s, FALSE, EXCEPTION, FALSE)
            /\ UNCHANGED <<wmvars, app_workers>>
       ELSE LET r == add_and_register_worker(WM, k, s, clock) IN
            /\ SetWM(r.wm)
            /\ app_workers' = ApplyCallbacks(app_workers, r.cb)
            /\ last' = CallCb("add_and_register_worker", k, s, FALSE, r.id,
                              r.id # INVALID_WORKER, r.cb)
    /\ UNCHANGED <<engvars, clock, brvars>>

AdminAddWorker(k, v) ==
    /\ LET r == admin_add_worker(WM, k, v, clock) IN
        /\ SetWM(r.wm)
        /\ app_workers' = ApplyCallbacks(app_workers, r.cb)
        /\ last' = CallCb("admin_add_worker", k, NONE, v, r.ret,
                          r.ret \notin {"unable to validate", "already exists",
                                        SERIOUSLY_WRONG}, r.cb)
    /\ UNCHANGED <<engvars, clock, brvars>>

AdminDeleteWorker(id) ==
    /\ LET r == admin_delete_worker(WM, id) IN
        /\ SetWM(r.wm)
        /\ app_workers' = ApplyCallbacks(app_workers, r.cb)
        /\ last' = CallCb("admin_delete_worker", id, NONE, FALSE, r.ret,
                          r.ret # INVALID_WORKER, r.cb)
    /\ UNCHANGED <<engvars, clock, brvars>>

AdminSetWorkerStatus(id, v) ==
    /\ LET r == admin_set_worker_status(WM, id, v) IN
        /\ SetWM(r.wm)
        /\ app_workers' = ApplyCallbacks(app_workers, r.cb)
        /\ last' = CallCb("admin_set_worker_status", id, NONE, v, r.id,
                          r.id # INVALID_WORKER, r.cb)
    /\ UNCHANGED <<engvars, clock, brvars>>

\* --------------------------------------------------- the worker handlers
\* WorkerManager.authenticate_worker(worker_id, signed_phrase, digest) as
\* receive_worker_update calls it: the signed phrase verifies under the
\* worker's stored key as a signature over the digest of the update
authenticate_worker_update(wm, worker_id, s, model_update) ==
    IF ~wm.auth THEN [raised |-> FALSE, ok |-> TRUE]
    ELSE IF worker_id \notin wm.pk THEN [raised |-> FALSE, ok |-> FALSE]
    ELSE IF s = "nonhex" THEN [raised |-> TRUE, ok |-> FALSE]
    ELSE [raised |-> FALSE, ok |-> s = SignUpdate(worker_id, model_update)]

\* receive_worker_update without the is_worker_registered test of line 439
receive_worker_update_no_registered_test(wm, worker_id, s, payload) ==
    IF s = NONE THEN [ret |-> ERROR_TEXT, cb |-> <<>>]
    ELSE IF ~IsCompressed(payload) THEN [ret |-> ERROR_TEXT, cb |-> <<>>]
    ELSE LET model_update == Decompress(payload)
             a == authenticate_worker_update(wm, worker_id, s, model_update)
         IN IF a.raised THEN [ret |-> ERROR_TEXT, cb |-> <<>>]
            ELSE IF ~a.ok THEN [ret |-> INVALID_WORKER, cb |-> <<>>]
            ELSE IF ~is_worker_allowed(wm, worker_id)
            THEN [ret |-> INVALID_WORKER, cb |-> <<>>]
            ELSE [ret |-> UPDATE_STATUS,
                  cb |-> <<receive_worker_update_callback(worker_id, model_update)>>]

\* receive_worker_update without the is_worker_allowed test of line 435
receive_worker_update_no_allowed_test(wm, worker_id, s, payload) ==
    IF s = NONE THEN [ret |-> ERROR_TEXT, cb |-> <<>>]
    ELSE IF ~IsCompressed(payload) THEN [ret |-> ERROR_TEXT, cb |-> <<>>]
    ELSE LET model_update == Decompress(payload)
             a == authenticate_worker_update(wm, worker_id, s, model_update)
         IN IF a.raised THEN [ret |-> ERROR_TEXT, cb |-> <<>>]
            ELSE IF ~a.ok THEN [ret |-> INVALID_WORKER, cb |-> <<>>]
            ELSE IF ~is_worker_registered(wm, worker_id)
            THEN [ret |-> UNREGISTERED_WORKER, cb |-> <<>>]
            ELSE [ret |-> UPDATE_STATUS,
                  cb |-> <<receive_worker_update_callback(worker_id, model_update)>>]

\* receive_worker_update: a request without a signed phrase gets an error
\* message; an exception (zlib.decompress, the signature decoding) is
\* caught and its text returned; the reply is otherwise INVALID_WORKER,
\* UNREGISTERED_WORKER or what the application callback returns
receive_worker_update(wm, worker_id, s, payload) ==
    IF s = NONE THEN [ret |-> ERROR_TEXT, cb |-> <<>>]
    ELSE IF ~IsCompressed(payload) THEN [ret |-> ERROR_TEXT, cb |-> <<>>]
    ELSE LET model_update == Decompress(payload)
             a == authenticate_worker_update(wm, worker_id, s, model_update)
         IN IF a.raised THEN [ret |-> ERROR_TEXT, cb |-> <<>>]
            ELSE IF ~a.ok THEN [ret |-> INVALID_WORKER, cb |-> <<>>]
            ELSE IF ~is_worker_allowed(wm, worker_id)
            THEN [ret |-> INVALID_WORKER, cb |-> <<>>]
            ELSE IF ~is_worker_registered(wm, worker_id)
            THEN [ret |-> UNREGISTERED_WORKER, cb |-> <<>>]
            ELSE [ret |-> UPDATE_STATUS,
                  cb |-> <<receive_worker_update_callback(worker_id, model_update)>>]

ReceiveWorkerUpdate(worker_id, s, payload) ==
    /\ LET r == receive_worker_update(WM, worker_id, s, payload) IN
        last' = [CallCb("receive_worker_update", worker_id, s, FALSE, r.ret,
                        r.ret = UPDATE_STATUS, r.cb) EXCEPT !.data = payload]
    /\ UNCHANGED <<wmvars, engvars, clock, brvars, app_workers>>

\* return_global_model: the three checks, then the packed and compressed
\* model the application callback returns; an exception is caught and its
\* text returned
return_global_model(wm, worker_id, s) ==
    IF ~is_worker_allowed(wm, worker_id) THEN [ret |-> INVALID_WORKER, cb |-> <<>>]
    ELSE IF verify_challenge(wm, worker_id, s).raised
    THEN [ret |-> ERROR_TEXT, cb |-> <<>>]
    ELSE IF ~verify_challenge(wm, worker_id, s).ok
    THEN [ret |-> INVALID_WORKER, cb |-> <<>>]
    ELSE IF ~is_worker_registered(wm, worker_id)
    THEN [ret |-> UNREGISTERED_WORKER, cb |-> <<>>]
    ELSE [ret |-> GLOBAL_MODEL, cb |-> <<return_global_model_callback>>]

ReturnGlobalModel(worker_id, s) ==
    /\ LET r == return_global_model(WM, worker_id, s) IN
        last' = CallCb("return_global_model", worker_id, s, FALSE, r.ret,
                       r.ret = GLOBAL_MODEL, r.cb)
    /\ UNCHANGED <<wmvars, engvars, clock, brvars, app_workers>>

\* ------------------------------------------------ the notification engine
\* the engine as a value: the request dict, the (Greenlet, Queue) pairs and
\* the seriously-wrong report
ENG == [dict |-> model_version_req_dict, gl |-> greenlets, wrong |-> seriously_wrong]

SetENG(e) ==
    /\ model_version_req_dict' = e.dict
    /\ greenlets' = e.gl
    /\ seriously_wrong' = e.wrong

HasEntry(e, worker_id) ==
    worker_id \in DOMAIN e.dict /\ Len(e.dict[worker_id]) > 0

\* body.put(x)
QueuePut(e, r, x) == [e EXCEPT !.gl[r].body = Append(@, x)]

\* lines 515-522: the last entry of the worker is popped and its queue gets
\* the terminated message and the end-of-stream marker
TerminateOld(e, worker_id) ==
    LET old == ListLast(e.dict[worker_id])
        e1 == [e EXCEPT !.dict[worker_id] = ListPop(@)]
        e2 == QueuePut(e1, old, EXISTING_REQUEST_TERMINATED)
    IN QueuePut(e2, old, StopIteration)

\* Greenlet.kill() as the greenlet takes it: a start not yet run is
\* cancelled, a sleeping greenlet gets GreenletExit, a dead one is left
KillGreenlet(e, r) ==
    IF e.gl[r].g \in {"scheduled", "sleeping"}
    THEN [e EXCEPT !.gl[r].g = "killed"]
    ELSE e

\* lines 524-533: the more-than-one-entry report, then the new Queue and
\* Greenlet are made, appended to the worker's list and started
InstallNew(e, worker_id, version) ==
    LET e1 == IF HasEntry(e, worker_id) THEN [e EXCEPT !.wrong = TRUE] ELSE e
        g == [worker |-> worker_id, version |-> version, g |-> "scheduled",
              body |-> <<>>, log |-> <<>>]
        e2 == [e1 EXCEPT !.gl = Append(@, g)]
        lst == IF worker_id \in DOMAIN e2.dict THEN e2.dict[worker_id] ELSE <<>>
    IN [e2 EXCEPT !.dict = DictSet(@, worker_id, Append(lst, Len(e2.gl)))]

\* the checks of notify_me_if_gm_version_updated without the registered
\* test of line 509
NotifyGate_no_registered_test(wm, worker_id, s) ==
    IF ~is_worker_allowed(wm, worker_id) THEN INVALID_WORKER
    ELSE IF verify_challenge(wm, worker_id, s).raised THEN EXCEPTION
    ELSE IF ~verify_challenge(wm, worker_id, s).ok THEN INVALID_WORKER
    ELSE QUEUE

\* the outcome of the three checks of notify_me_if_gm_version_updated
NotifyGate(wm, worker_id, s) ==
    IF ~is_worker_allowed(wm, worker_id) THEN INVALID_WORKER
    ELSE IF verify_challenge(wm, worker_id, s).raised THEN EXCEPTION
    ELSE IF ~verify_challenge(wm, worker_id, s).ok THEN INVALID_WORKER
    ELSE IF ~is_worker_registered(wm, worker_id) THEN UNREGISTERED_WORKER
    ELSE QUEUE

Accepted == Len(greenlets) + Cardinality(killers)

\* notify_me_if_gm_version_updated, up to its return or to the point where
\* old_g.kill() suspends it: kill() blocks until the greenlet is dead, which
\* it is at once unless the greenlet has run and is asleep
NotifyMeIfGmVersionUpdated(worker_id, s, version) ==
    /\ LET gate == NotifyGate(WM, worker_id, s) IN
        /\ last' = Call("notify_me_if_gm_version_updated", worker_id, s, FALSE,
                        gate, gate = QUEUE)
        /\ IF gate # QUEUE
           THEN UNCHANGED <<model_version_req_dict, greenlets, killers,
                            seriously_wrong>>
           ELSE /\ Accepted < MaxReq
                /\ IF HasEntry(ENG, worker_id)
                   THEN LET old == ListLast(model_version_req_dict[worker_id])
                            e1 == TerminateOld(ENG, worker_id)
                        IN IF greenlets[old].g = "sleeping"
                           THEN /\ SetENG(e1)
                                /\ killers' = killers \cup
                                     {[worker |-> worker_id, version |-> version,
                                       target |-> old]}
                           ELSE /\ SetENG(InstallNew(KillGreenlet(e1, old),
                                                     worker_id, version))
                                /\ UNCHANGED killers
                   ELSE /\ SetENG(InstallNew(ENG, worker_id, version))
                        /\ UNCHANGED killers
    /\ UNCHANGED <<wmvars, brvars, app_workers, clock, global_model_version>>

\* the kill lands: GreenletExit is thrown into the target, and the handler
\* suspended in old_g.kill() runs on to its return
KillLands(h) ==
    /\ h \in killers
    /\ killers' = killers \ {h}
    /\ SetENG(InstallNew(KillGreenlet(ENG, h.target), h.worker, h.version))
    /\ UNCHANGED <<wmvars, brvars, app_workers, clock, global_model_version, last>>

\* what the greenlet itself did, in order: the callbacks it invoked and
\* the items it put on its queue
TaskDid(e, r, x) == [e EXCEPT !.gl[r].log = Append(@, x)]
TaskPut(e, r, x) == TaskDid(QueuePut(e, r, x), r, <<"put", x>>)

\* the delivery with a clean-up that empties the list of every worker
Deliver_clears_table(e, r) ==
    LET e0 == TaskDid(e, r, return_global_model_callback)
        e1 == TaskPut(TaskPut(e0, r, GLOBAL_MODEL_UPDATED_STRING), r, StopIteration)
        e2 == [e1 EXCEPT !.dict = [x \in DOMAIN @ |-> <<>>]]
    IN [e2 EXCEPT !.gl[r].g = "done"]

\* lines 468-481 of check_model_version_updated: the model is fetched, the
\* two items are put on the queue and the worker's list is popped
Deliver(e, r) ==
    LET w == e.gl[r].worker
        e0 == TaskDid(e, r, return_global_model_callback)
        e1 == TaskPut(TaskPut(e0, r, GLOBAL_MODEL_UPDATED_STRING), r, StopIteration)
        e2 == IF Len(e1.dict[w]) > 0 THEN [e1 EXCEPT !.dict[w] = ListPop(@)] ELSE e1
        e3 == IF Len(e2.dict[w]) > 0 THEN [e2 EXCEPT !.wrong = TRUE] ELSE e2
    IN [e3 EXCEPT !.gl[r].g = "done"]

\* check_model_version_updated without the loop of lines 465-466
check_model_version_updated_no_loop(e, r) == Deliver(e, r)

\* check_model_version_updated from its start or from a wake-up of
\* gevent.sleep to the next sleep or to its end
check_model_version_updated(e, r) ==
    IF is_global_model_most_recent(e.gl[r].version)
    THEN [e EXCEPT !.gl[r].g = "sleeping"]
    ELSE Deliver(e, r)

PollTask(r) ==
    /\ r \in 1..Len(greenlets)
    /\ greenlets[r].g \in {"scheduled", "sleeping"}
    /\ SetENG(check_model_version_updated(ENG, r))
    /\ UNCHANGED <<wmvars, brvars, app_workers, clock, killers, global_model_version, last>>

\* ------------------------------------------- the ZeroMQ interface
\* Python values are tagged: <<"str", t>>, <<"bytes", t>>, <<"int", n>>,
\* <<"bool", b>>, <<"obj", name>>; a frame on the wire is <<"bytes", t>> or
\* <<"pickle", value>>
BridgeWorkerIds == {<<"str", "w1">>}
BridgeVersions == {<<"int", 1>>, <<"str", "1">>, <<"str", "v1">>}
BridgeUpdates == {<<"bytes", "upd1">>}
NoReply == <<>>
Raised == <<"raised">>
NoCall == [op |-> NONE, args |-> <<>>]
IdleCaller == [pc |-> "idle", call |-> NoCall, own |-> 0, read |-> 0,
               result |-> <<>>]

\* the calls the server process makes: the six *_send methods
BridgeCalls ==
    {[op |-> "server_args_request", args |-> <<>>],
     [op |-> "return_global_model", args |-> <<>>]}
    \cup {[op |-> o, args |-> <<w>>] :
            o \in {"register_worker", "unregister_worker"}, w \in BridgeWorkerIds}
    \cup {[op |-> "is_global_model_most_recent", args |-> <<v>>] :
            v \in BridgeVersions}
    \cup {[op |-> "receive_worker_update", args |-> <<w, u>>] :
            w \in BridgeWorkerIds, u \in BridgeUpdates}
\* a message type the model process does not know
ForeignTags == {"bogus"}

\* str.encode('utf-8') and bytes.decode('utf-8')
encode(x) == <<"bytes", x[2]>>
decode(x) == <<"str", x[2]>>
\* str(model_version)
PyStr(v) == IF v[1] = "int" THEN <<"str", <<"0", "1", "2", "3">>[v[2] + 1]>> ELSE v
\* int(text): the value, or ValueError for text that is not a number
IsNumeric(x) == x[2] \in {"0", "1", "2", "3"}
PyInt(x) == <<"int", CHOOSE n \in 0..3 : <<"0", "1", "2", "3">>[n + 1] = x[2]>>

\* socket.send_pyobj, socket.send, socket.send_string as frames
send_pyobj(x) == <<"pickle", x>>
send_string(x) == <<"bytes", x[2]>>
\* socket.recv_pyobj, socket.recv, socket.recv_string on a frame
recv_pyobj(f) == IF f[1] = "pickle" THEN f[2] ELSE Raised
recv(f) == f
recv_string(f) == IF f[1] = "bytes" THEN <<"str", f[2]>> ELSE Raised

\* the multipart request a *_send method hands to _send
RequestFrame(call) ==
    IF call.op \in {"server_args_request", "return_global_model"}
    THEN <<call.op>>
    ELSE IF call.op \in {"register_worker", "unregister_worker"}
    THEN <<call.op, encode(call.args[1])>>
    ELSE IF call.op = "is_global_model_most_recent"
    THEN <<call.op, encode(PyStr(call.args[1]))>>
    ELSE <<call.op, encode(call.args[1]), call.args[2]>>

\* how a *_send method reads its reply
ReadReply(call, f) ==
    IF call.op \in {"server_args_request", "return_global_model",
                    "is_global_model_most_recent"}
    THEN recv_pyobj(f)
    ELSE IF call.op \in {"register_worker", "unregister_worker"}
    THEN recv(f)
    ELSE recv_string(f)

\* the callbacks of the model process and what they return
server_subprocess_args == <<"obj", "server_subprocess_args">>
ModelCallback(name, args) == <<name>> \o args
ModelResult(name, args) ==
    IF name = "return_global_model_callback" THEN <<"obj", "global model">>
    ELSE IF name = "is_global_model_most_recent"
    THEN <<"bool", is_global_model_most_recent(args[1][2])>>
    ELSE IF name = "receive_worker_update_callback" THEN <<"str", "status">>
    ELSE <<"obj", "None">>

\* ZMQInterfaceModel.receive whose else branch acknowledges the message
receive_acks_unknown(message) ==
    IF message[1] = "server_args_request"
    THEN [cb |-> <<>>, reply |-> send_pyobj(server_subprocess_args),
          raised |-> FALSE]
    ELSE IF message[1] = "register_worker"
    THEN [cb |-> <<ModelCallback("register_worker_callback", <<message[2]>>)>>,
          reply |-> <<"bytes", "1">>, raised |-> FALSE]
    ELSE IF message[1] = "unregister_worker"
    THEN [cb |-> <<ModelCallback("unregister_worker_callback", <<message[2]>>)>>,
          reply |-> <<"bytes", "1">>, raised |-> FALSE]
    ELSE IF message[1] = "return_global_model"
    THEN [cb |-> <<ModelCallback("return_global_model_callback", <<>>)>>,
          reply |-> send_pyobj(ModelResult("return_global_model_callback", <<>>)),
          raised |-> FALSE]
    ELSE IF message[1] = "is_global_model_most_recent"
    THEN IF IsNumeric(decode(message[2]))
         THEN LET v == PyInt(decode(message[2])) IN
              [cb |-> <<ModelCallback("is_global_model_most_recent", <<v>>)>>,
               reply |-> send_pyobj(ModelResult("is_global_model_most_recent", <<v>>)),
               raised |-> FALSE]
         ELSE [cb |-> <<>>, reply |-> NoReply, raised |-> TRUE]
    ELSE IF message[1] = "receive_worker_update"
    THEN [cb |-> <<ModelCallback("receive_worker_update_callback",
                                 <<message[2], message[3]>>)>>,
          reply |-> send_string(ModelResult("receive_worker_update_callback",
                                            <<message[2], message[3]>>)),
          raised |-> FALSE]
    ELSE [cb |-> <<>>, reply |-> <<"bytes", "1">>, raised |-> FALSE]

\* ZMQInterfaceModel.receive on a message: the callbacks invoked, the reply
\* sent (NoReply: none) and whether an exception leaves receive
receive(message) ==
    IF message[1] = "server_args_request"
    THEN [cb |-> <<>>, reply |-> send_pyobj(server_subprocess_args),
          raised |-> FALSE]
    ELSE IF message[1] = "register_worker"
    THEN [cb |-> <<ModelCallback("register_worker_callback", <<message[2]>>)>>,
          reply |-> <<"bytes", "1">>, raised |-> FALSE]
    ELSE IF message[1] = "unregister_worker"
    THEN [cb |-> <<ModelCallback("unregister_worker_callback", <<message[2]>>)>>,
          reply |-> <<"bytes", "1">>, raised |-> FALSE]
    ELSE IF message[1] = "return_global_model"
    THEN [cb |-> <<ModelCallback("return_global_model_callback", <<>>)>>,
          reply |-> send_pyobj(ModelResult("return_global_model_callback", <<>>)),
          raised |-> FALSE]
    ELSE IF message[1] = "is_global_model_most_recent"
    THEN IF IsNumeric(decode(message[2]))
         THEN LET v == PyInt(decode(message[2])) IN
              [cb |-> <<ModelCallback("is_global_model_most_recent", <<v>>)>>,
               reply |-> send_pyobj(ModelResult("is_global_model_most_recent", <<v>>)),
               raised |-> FALSE]
         ELSE [cb |-> <<>>, reply |-> NoReply, raised |-> TRUE]
    ELSE IF message[1] = "receive_worker_update"
    THEN [cb |-> <<ModelCallback("receive_worker_update_callback",
                                 <<message[2], message[3]>>)>>,
          reply |-> send_string(ModelResult("receive_worker_update_callback",
                                            <<message[2], message[3]>>)),
          raised |-> FALSE]
    ELSE [cb |-> <<>>, reply |-> NoReply, raised |-> FALSE]

\* a REQ socket that has sent the frame
NewSocket(call, frame) ==
    [call |-> call, frame |-> frame, handled |-> FALSE, cb |-> <<>>,
     reply |-> NoReply, recvd |-> FALSE]

\* a *_send method up to the return of _send: a new REQ socket is made,
\* stored in self.socket and the request is sent on it
BridgeSend(t, call) ==
    /\ callers[t].pc = "idle"
    /\ LET n == Len(req_sockets) + 1 IN
        /\ req_sockets' = Append(req_sockets, NewSocket(call, RequestFrame(call)))
        /\ bridge_socket' = n
        /\ rep_queue' = Append(rep_queue, n)
        /\ callers' = [callers EXCEPT ![t] = [pc |-> "sent", call |-> call,
                                              own |-> n, read |-> 0,
                                              result |-> <<>>]]
    /\ UNCHANGED <<wmvars, engvars, clock, last, app_workers, rep_state, subprocess>>

\* the rest of a *_send method: the reply is read from self.socket, the
\* socket the last _send stored; a REQ socket whose reply was taken already
\* refuses a second recv
BridgeRecv(t) ==
    /\ callers[t].pc = "sent"
    /\ LET n == bridge_socket IN
        IF req_sockets[n].recvd
        THEN /\ callers' = [callers EXCEPT ![t].pc = "returned",
                                           ![t].result = Raised]
             /\ UNCHANGED req_sockets
        ELSE /\ req_sockets[n].reply # NoReply
             /\ callers' = [callers EXCEPT
                              ![t].pc = "returned", ![t].read = n,
                              ![t].result = ReadReply(callers[t].call,
                                                      req_sockets[n].reply)]
             /\ req_sockets' = [req_sockets EXCEPT ![n].recvd = TRUE]
    /\ UNCHANGED <<wmvars, engvars, clock, last, app_workers, bridge_socket, rep_queue,
                   rep_state, subprocess>>

\* another client of the REP socket sends a message of an unknown type
ForeignSend(tag) ==
    /\ Cardinality({n \in 1..Len(req_sockets) :
                      req_sockets[n].call = NoCall}) < MaxForeign
    /\ req_sockets' = Append(req_sockets, NewSocket(NoCall, <<tag>>))
    /\ rep_queue' = Append(rep_queue, Len(req_sockets) + 1)
    /\ UNCHANGED <<wmvars, engvars, clock, last, app_workers, bridge_socket, rep_state,
                   callers, subprocess>>

\* one call of ZMQInterfaceModel.receive: the next request is taken from
\* the REP socket and served; a REP socket that got a request and sent no
\* reply refuses the next recv_multipart
ModelReceive ==
    /\ rep_queue # <<>>
    /\ rep_state \in {"recv", "send"}
    /\ IF rep_state = "send"
       THEN /\ rep_state' = "failed"
            /\ UNCHANGED <<req_sockets, rep_queue>>
       ELSE LET n == Head(rep_queue)
                r == receive(req_sockets[n].frame)
            IN /\ rep_queue' = Tail(rep_queue)
               /\ req_sockets' = [req_sockets EXCEPT ![n].handled = TRUE,
                                                     ![n].cb = r.cb,
                                                     ![n].reply = r.reply]
               /\ rep_state' = IF r.raised THEN "failed"
                               ELSE IF r.reply = NoReply THEN "send"
                               ELSE "recv"
    /\ UNCHANGED <<wmvars, engvars, clock, last, app_workers, bridge_socket, callers,
                   subprocess>>

\* ------------------------------------------- the server sub-process
\* ZQMInterfaceServer.__init__ of the module subprocess_dcf_server imports
\* (zqm_interface): it takes the socket; a call with another number of
\* arguments raises TypeError
ZQMInterfaceServer_init(args) ==
    IF Len(args) = 1 THEN [raised |-> FALSE, socket |-> args[1]]
    ELSE [raised |-> TRUE, socket |-> 0]

\* the callbacks the module body passes to DCFServer: the five *_send
\* methods of zqmi
ForwardingCallbacks ==
    [register_worker_callback |-> "register_worker_send",
     unregister_worker_callback |-> "unregister_worker_send",
     return_global_model_callback |-> "return_global_model_send",
     is_global_model_most_recent |-> "is_global_model_most_recent_send",
     receive_worker_update_callback |-> "receive_worker_update_send"]
NoServer == [built |-> FALSE, callbacks |-> <<>>, kwargs |-> <<>>]
\* the module before its body runs
SubprocessStart ==
    [pc |-> "zqmi", own |-> 0, exchanges |-> 0, args |-> <<>>,
     server |-> NoServer, started |-> 0]
ArgsCall == [op |-> "server_args_request", args |-> <<>>]

\* one statement of the module body: zqmi = ZQMInterfaceServer(), the two
\* halves of zqmi.server_args_request_send() (request sent, reply read),
\* server = DCFServer(...), server.start_server(); an exception ends it
SubprocessStep ==
    /\ subprocess.pc \in {"zqmi", "args_send", "args_recv", "server", "start"}
    /\ CASE subprocess.pc = "zqmi" ->
              /\ subprocess' = [subprocess EXCEPT !.pc =
                      IF ZQMInterfaceServer_init(<<>>).raised THEN "raised"
                      ELSE "args_send"]
              /\ UNCHANGED <<bridge_socket, req_sockets, rep_queue>>
         [] subprocess.pc = "args_send" ->
              LET n == Len(req_sockets) + 1 IN
              /\ req_sockets' = Append(req_sockets,
                                       NewSocket(ArgsCall, RequestFrame(ArgsCall)))
              /\ bridge_socket' = n
              /\ rep_queue' = Append(rep_queue, n)
              /\ subprocess' = [subprocess EXCEPT !.pc = "args_recv", !.own = n]
         [] subprocess.pc = "args_recv" ->
              LET n == bridge_socket IN
              /\ req_sockets[n].reply # NoReply
              /\ ~req_sockets[n].recvd
              /\ req_sockets' = [req_sockets EXCEPT ![n].recvd = TRUE]
              /\ subprocess' = [subprocess EXCEPT
                                  !.pc = "server",
                                  !.exchanges = @ + 1,
                                  !.args = ReadReply(ArgsCall, req_sockets[n].reply)]
              /\ UNCHANGED <<bridge_socket, rep_queue>>
         [] subprocess.pc = "server" ->
              /\ subprocess' = [subprocess EXCEPT
                                  !.pc = "start",
                                  !.server = [built |-> TRUE,
                                              callbacks |-> ForwardingCallbacks,
                                              kwargs |-> subprocess.args]]
              /\ UNCHANGED <<bridge_socket, req_sockets, rep_queue>>
         [] subprocess.pc = "start" ->
              /\ subprocess' = [subprocess EXCEPT !.pc = "serving",
                                                  !.started = @ + 1]
              /\ UNCHANGED <<bridge_socket, req_sockets, rep_queue>>
    /\ UNCHANGED <<wmvars, engvars, clock, last, app_workers, rep_state, callers>>

\* the state after DCFServer.__init__ with no key list file and an empty or
\* absent keys database; the database is attached in safe mode when
\* load_last_session_workers is set
Init ==
    /\ do_public_key_auth \in BOOLEAN
    /\ public_keys = {}
    /\ allowed_workers = <<>>
    /\ registered_workers = <<>>
    /\ public_keys_db \in {[attached |-> a, docs |-> <<>>] :
                             a \in IF do_public_key_auth THEN BOOLEAN ELSE {FALSE}}
    /\ clock = 0
    /\ model_version_req_dict = <<>>
    /\ greenlets = <<>>
    /\ killers = {}
    /\ global_model_version = 0
    /\ seriously_wrong = FALSE
    /\ last = Call("init", NONE, NONE, FALSE, NONE, FALSE)
    /\ bridge_socket = 0
    /\ req_sockets = <<>>
    /\ rep_queue = <<>>
    /\ rep_state = "recv"
    /\ callers = [t \in 1..MaxTasks |-> IdleCaller]
    /\ subprocess = SubprocessStart
    /\ app_workers = {}

\* the WorkerManager driven directly through its public methods
NextWM ==
    \/ \E k \in KeyStrs : AddWorker(k)
    \/ \E k \in WorkerIds, s \in SignedPhrases : AuthenticateWorker(k, s)
    \/ \E k \in KeyStrs, s \in SignedPhrases : AuthenticateAndAddWorker(k, s)
    \/ \E id \in WorkerIds, v \in BOOLEAN : SetRegistrationStatus(id, v)
    \/ \E id \in WorkerIds : RemoveWorker(id)
    \/ Tick

SpecWM == Init /\ [][NextWM]_vars

\* a server constructed in safe mode that loads the workers of the last
\* session from its keys database, and a key list file; the call record
\* keeps the documents and the lines the constructor was given
InitStore ==
    /\ \E docs \in ListsUpTo(KeyStrs, MaxDocs), key_list \in ListsUpTo(KeyStrs, MaxDocs) :
         \E wm \in WorkerManager_init(TRUE, key_list, TRUE, docs) :
            /\ do_public_key_auth = wm.auth
            /\ public_keys = wm.pk
            /\ allowed_workers = wm.aw
            /\ registered_workers = wm.rw
            /\ public_keys_db = wm.db
            /\ last = [Call("init", NONE, NONE, TRUE, NONE, TRUE)
                          EXCEPT !.data = <<docs, key_list>>]
    /\ clock = 0
    /\ model_version_req_dict = <<>>
    /\ greenlets = <<>>
    /\ killers = {}
    /\ global_model_version = 0
    /\ seriously_wrong = FALSE
    /\ bridge_socket = 0
    /\ req_sockets = <<>>
    /\ rep_queue = <<>>
    /\ rep_state = "recv"
    /\ callers = [t \in 1..MaxTasks |-> IdleCaller]
    /\ subprocess = SubprocessStart
    /\ app_workers = {}

SpecStore == InitStore /\ [][NextWM]_vars

\* the server driven through its registry and worker routes, in either mode
UpdateSigs == SignedUpdates \cup {"forged", "nonhex", NONE}

NextSrv ==
    \/ \E k \in KeyStrs, s \in SignedPhrases : AddAndRegisterWorker(k, s)
    \/ \E k \in KeyStrs, v \in BOOLEAN : AdminAddWorker(k, v)
    \/ \E id \in WorkerIds : AdminDeleteWorker(id)
    \/ \E id \in WorkerIds, v \in BOOLEAN : AdminSetWorkerStatus(id, v)
    \/ \E id \in WorkerIds, s \in UpdateSigs, p \in Payloads :
          ReceiveWorkerUpdate(id, s, p)
    \/ \E id \in WorkerIds, s \in SignedPhrases : ReturnGlobalModel(id, s)
    \/ Tick

SpecSrv == Init /\ [][NextSrv]_vars

\* the requests sent to the server: one worker with a valid key, and one
\* string that is neither a valid key nor a known worker id
SrvKeys == {"k1", BadKey}
SrvSigned == {"k1", "forged", "nonhex"}

\* a server constructed in safe mode
InitSafe == Init /\ do_public_key_auth

\* the server driven through its routes, with its greenlets
Next ==
    \/ \E k \in SrvKeys, s \in SrvSigned : AddAndRegisterWorker(k, s)
    \/ \E k \in SrvKeys, v \in BOOLEAN : AdminAddWorker(k, v)
    \/ \E id \in SrvKeys : AdminDeleteWorker(id)
    \/ \E id \in SrvKeys, v \in BOOLEAN : AdminSetWorkerStatus(id, v)
    \/ \E id \in SrvKeys, s \in SrvSigned : ReturnGlobalModel(id, s)
    \/ \E id \in SrvKeys, s \in SrvSigned, v \in Versions :
          NotifyMeIfGmVersionUpdated(id, s, v)
    \/ \E h \in killers : KillLands(h)
    \/ \E r \in 1..MaxReq : PollTask(r)
    \/ ModelUpdate

Spec == InitSafe /\ [][Next]_vars

\* the scheduler runs every greenlet that is ready: a sleeping poll task
\* wakes up after model_check_interval, and a requested kill is delivered
LiveSpec ==
    /\ InitSafe
    /\ [][Next]_vars
    /\ \A r \in 1..MaxReq : WF_vars(PollTask(r))
    /\ WF_vars(\E h \in killers : KillLands(h))

\* the wait engine with two registered workers, each sending wait requests
\* with its own signed phrase and the first model version as the version
\* it has
NextTwo ==
    \/ \E k \in ValidKeys : AdminAddWorker(k, TRUE)
    \/ \E id \in ValidKeys : NotifyMeIfGmVersionUpdated(id, id, 0)
    \/ \E h \in killers : KillLands(h)
    \/ \E r \in 1..MaxReq : PollTask(r)
    \/ ModelUpdate

SpecTwo == InitSafe /\ [][NextTwo]_vars

\* the wait engine with one worker that the admin adds, registers,
\* unregisters and deletes, and wait requests that pass or fail each test
\* of the gate
NextGate ==
    \/ AdminAddWorker("k1", TRUE)
    \/ \E v \in BOOLEAN : AdminSetWorkerStatus("k1", v)
    \/ AdminDeleteWorker("k1")
    \/ \E id \in SrvKeys, s \in {"k1", "forged"} :
          NotifyMeIfGmVersionUpdated(id, s, 0)
    \/ \E h \in killers : KillLands(h)
    \/ \E r \in 1..MaxReq : PollTask(r)
    \/ ModelUpdate

SpecGate == InitSafe /\ [][NextGate]_vars

\* the server process calling the model process through the interface
NextBridge ==
    \/ \E t \in 1..MaxTasks, call \in BridgeCalls : BridgeSend(t, call)
    \/ \E t \in 1..MaxTasks : BridgeRecv(t)
    \/ \E tag \in ForeignTags : ForeignSend(tag)
    \/ ModelReceive
    \/ SubprocessStep

\* the interface is used by a server built in safe mode without a keys
\* database
InitBridge == InitSafe /\ ~public_keys_db.attached

SpecBridge == InitBridge /\ [][NextBridge]_vars

\* ------------------------------------------------------------ properties
Requests == 1..Len(greenlets)
Live(r) == greenlets[r].g \in {"scheduled", "sleeping"}
InTable(r) ==
    /\ greenlets[r].worker \in DOMAIN model_version_req_dict
    /\ InList(r, model_version_req_dict[greenlets[r].worker])
Got(r, x) == InList(x, greenlets[r].body)
AbsentFromStores(id) ==
    /\ ~InList(id, allowed_workers)
    /\ id \notin DOMAIN registered_workers
    /\ id \notin public_keys
    /\ ~InList(id, public_keys_db.docs)

\* C1: for every identity, is_worker_registered(id) implies
\* is_worker_allowed(id), in every state the WorkerManager methods reach
C1_RegisteredImpliesAllowed ==
    \A id \in WorkerIds : is_worker_registered(WM, id) => is_worker_allowed(WM, id)

\* C2: the request dict holds at most one entry per worker and the
\* more-than-one-entry report is never made
C2_AtMostOneEntry ==
    /\ \A w \in DOMAIN model_version_req_dict : Len(model_version_req_dict[w]) <= 1
    /\ ~seriously_wrong

\* C3: a worker never has two live waits neither of which got the
\* terminated message (the earlier one is terminated when the later one is
\* accepted), and a wait that got the terminated message never gets the
\* model-updated message
C3_SupersededNotChanged ==
    /\ \A r1, r2 \in Requests :
          (r1 # r2 /\ greenlets[r1].worker = greenlets[r2].worker)
              => ~(/\ Live(r1) /\ ~Got(r1, EXISTING_REQUEST_TERMINATED)
                   /\ Live(r2) /\ ~Got(r2, EXISTING_REQUEST_TERMINATED))
    /\ \A r \in Requests :
          ~(Got(r, EXISTING_REQUEST_TERMINATED) /\ Got(r, GLOBAL_MODEL_UPDATED_STRING))

\* C4: the queue of a wait request holds nothing, or exactly one terminal
\* result followed by the end-of-stream marker
C4_ExactlyOnce ==
    \A r \in Requests :
        \/ greenlets[r].body = <<>>
        \/ \E x \in {GLOBAL_MODEL_UPDATED_STRING, EXISTING_REQUEST_TERMINATED,
                     REMOVED_MARKER} : greenlets[r].body = <<x, StopIteration>>

\* C5: removing a worker that has a live wait stops the poll task, delivers
\* the removed marker and empties the worker's list in the request dict
C5_RemovalCancelsWait ==
    [][\A id \in SrvKeys :
          (AdminDeleteWorker(id) /\ last'.ok /\ HasEntry(ENG, id)) =>
              LET r == ListLast(model_version_req_dict[id]) IN
              /\ ~(id \in DOMAIN model_version_req_dict'
                     /\ Len(model_version_req_dict'[id]) > 0)
              /\ InList(REMOVED_MARKER, greenlets'[r].body)
              /\ greenlets'[r].g \notin {"scheduled", "sleeping"}]_vars

StaleWait(r) ==
    IF r \in Requests
    THEN Live(r) /\ InTable(r) /\ greenlets[r].version < global_model_version
    ELSE FALSE
Resolved(r) ==
    IF r \in Requests
    THEN Got(r, GLOBAL_MODEL_UPDATED_STRING) \/ Got(r, EXISTING_REQUEST_TERMINATED)
    ELSE FALSE

\* C6: a live wait whose version is older than the global model eventually
\* gets the model-updated message (or is terminated by a newer request), and
\* once a wait got the model-updated message the dict holds no entry for its
\* worker
C6_StaleWaitResolves ==
    /\ \A r \in 1..MaxReq : StaleWait(r) ~> Resolved(r)
    /\ [][\A r \in Requests :
            (~Got(r, GLOBAL_MODEL_UPDATED_STRING)
                /\ InList(GLOBAL_MODEL_UPDATED_STRING, greenlets'[r].body))
              => Len(model_version_req_dict'[greenlets[r].worker]) = 0]_vars

\* C7: in safe mode add_worker(k) with a valid key returns k, reports
\* created exactly when k was not yet allowed, and on an allowed k leaves
\* the four stores as they were
C7_IdempotentAdd ==
    [][\A k \in ValidKeys :
          (do_public_key_auth /\ AddWorker(k)) =>
              /\ last'.ret = k
              /\ last'.ok = ~InList(k, allowed_workers)
              /\ InList(k, allowed_workers) => UNCHANGED wmvars]_vars

C7_Witness ==
    /\ do_public_key_auth
    /\ public_keys_db.attached
    /\ last.op = "add_worker" /\ last.arg \in ValidKeys
    /\ last.ret = last.arg /\ ~last.ok
    /\ registered_workers[last.arg]

\* C8: in safe mode authenticate_worker returns true only for a key that
\* has a public key record and a signed phrase that verifies under it, and
\* false for a key without a record
C8_FailClosed ==
    (do_public_key_auth /\ last.op = "authenticate_worker") =>
        /\ last.ok => (last.arg \in public_keys /\ Verifies(last.arg, last.sig))
        /\ last.arg \notin public_keys => (~last.ok /\ last.ret # EXCEPTION)

\* a key that was added and removed, presented with its own signature
C8_Witness ==
    /\ do_public_key_auth
    /\ last.op = "authenticate_worker" /\ ~last.ok
    /\ last.arg \in DOMAIN registered_workers /\ last.arg \notin public_keys
    /\ Verifies(last.arg, last.sig)

C10_RemoveFromAllStores ==
    [][\A id \in WorkerIds :
          RemoveWorker(id) =>
              IF InList(id, allowed_workers)
              THEN /\ last'.ret = id
                   /\ ~InList(id, allowed_workers')
                   /\ id \notin DOMAIN registered_workers'
                   /\ id \notin public_keys'
                   /\ ~InList(id, public_keys_db'.docs)
              ELSE last'.ret = INVALID_WORKER /\ UNCHANGED wmvars]_vars

AllowedSet == {allowed_workers[i] : i \in 1..Len(allowed_workers)}

\* C11: the ids that have a registration status are exactly the allowed
\* workers, and get_worker_list returns one pair per allowed worker and none
\* for any other id
C11_StatusDomainIsAllowed ==
    /\ DOMAIN registered_workers = AllowedSet
    /\ {p.worker_id : p \in get_worker_list(WM)} = AllowedSet
    /\ Cardinality(get_worker_list(WM)) = Cardinality(AllowedSet)

\* C12: set_registration_status(id, v) on an allowed id sets the status of
\* id to v, returns id and leaves every other status and the other stores as
\* they were; on an id that is not allowed it returns INVALID_WORKER and
\* changes nothing
C12_SetStatusFrame ==
    [][\A id \in WorkerIds, v \in BOOLEAN :
          SetRegistrationStatus(id, v) =>
              IF InList(id, allowed_workers)
              THEN /\ last'.ret = id
                   /\ registered_workers'[id] = v
                   /\ DOMAIN registered_workers' = DOMAIN registered_workers
                   /\ \A w \in DOMAIN registered_workers \ {id} :
                         registered_workers'[w] = registered_workers[w]
                   /\ UNCHANGED <<do_public_key_auth, public_keys,
                                  allowed_workers, public_keys_db>>
              ELSE last'.ret = INVALID_WORKER /\ UNCHANGED wmvars]_vars

\* a status cleared while another allowed worker stays registered
C12_Witness ==
    /\ last.op = "set_registration_status" /\ last.ok /\ ~last.val
    /\ ~registered_workers[last.arg]
    /\ \E w \in AllowedSet : w # last.arg /\ registered_workers[w]

\* C13: with authentication disabled every add_worker call makes a new
\* worker: the id it returns was not generated before, and the allowed list
\* grows by one
C13_UnauthIdsDistinct ==
    [][\A k \in KeyStrs :
          (~do_public_key_auth /\ AddWorker(k)) =>
              /\ last'.ok
              /\ ~InList(last'.ret, allowed_workers)
              /\ last'.ret \notin DOMAIN registered_workers
              /\ Len(allowed_workers') = Len(allowed_workers) + 1]_vars

\* the signed phrase s is a signature by the stored key of id over the
\* update of payload p (in unsafe mode nothing is verified)
UpdateAuthenticated(id, s, p) ==
    \/ ~do_public_key_auth
    \/ /\ id \in public_keys
       /\ \E u \in Updates : p = Compress(u) /\ s = SignUpdate(id, u)

C16_GateOutcomes ==
    [][\A id \in SrvKeys, s \in SrvSigned :
          (\/ ReturnGlobalModel(id, s)
           \/ \E v \in Versions : NotifyMeIfGmVersionUpdated(id, s, v)) =>
              IF \/ ~InList(id, allowed_workers)
                 \/ (do_public_key_auth /\ ~(id \in public_keys /\ Verifies(id, s)))
              THEN last'.ret = INVALID_WORKER /\ last'.cb = <<>>
              ELSE IF ~(id \in DOMAIN registered_workers /\ registered_workers[id])
              THEN last'.ret = UNREGISTERED_WORKER /\ last'.cb = <<>>
              ELSE \/ last'.ret = GLOBAL_MODEL
                      /\ last'.cb = <<return_global_model_callback>>
                   \/ last'.ret = QUEUE]_vars

Sockets == 1..Len(req_sockets)
KnownTags == {"server_args_request", "register_worker", "unregister_worker",
              "return_global_model", "is_global_model_most_recent",
              "receive_worker_update"}
\* the callback that matches an operation, invoked with the values the
\* caller passed
ExpectedCallbacks(call) ==
    IF call.op = "server_args_request" THEN <<>>
    ELSE IF call.op = "register_worker"
    THEN <<ModelCallback("register_worker_callback", call.args)>>
    ELSE IF call.op = "unregister_worker"
    THEN <<ModelCallback("unregister_worker_callback", call.args)>>
    ELSE IF call.op = "return_global_model"
    THEN <<ModelCallback("return_global_model_callback", call.args)>>
    ELSE IF call.op = "is_global_model_most_recent"
    THEN <<ModelCallback("is_global_model_most_recent", call.args)>>
    ELSE <<ModelCallback("receive_worker_update_callback", call.args)>>
\* what the call returns when it returns the result of the callback that
\* was invoked for its request
ExpectedResult(call, cb) ==
    IF call.op = "server_args_request" THEN server_subprocess_args
    ELSE IF call.op \in {"register_worker", "unregister_worker"}
    THEN <<"bytes", "1">>
    ELSE ModelResult(cb[1][1], Tail(cb[1]))

\* C18: for every request a *_send method sent and the model process
\* served, the matching callback was invoked exactly once with the argument
\* values the caller passed and one reply was sent; and a call that returned
\* returned the result of that callback (b'1' for register and unregister)
C18_OneCallOneCallbackOneReply ==
    /\ \A n \in Sockets :
          (req_sockets[n].call # NoCall /\ req_sockets[n].handled) =>
              /\ req_sockets[n].cb = ExpectedCallbacks(req_sockets[n].call)
              /\ req_sockets[n].reply # NoReply
    /\ \A t \in 1..MaxTasks :
          callers[t].pc = "returned" =>
              callers[t].result =
                  ExpectedResult(callers[t].call, req_sockets[callers[t].own].cb)

\* C19: every call that returned has read the reply to its own request
C19_OwnReply ==
    \A t \in 1..MaxTasks :
        callers[t].pc = "returned" => callers[t].read = callers[t].own

\* C20: a request whose message type is not one of the six known ones is
\* served with no callback invoked and no reply sent
C20_UnknownTagNoReply ==
    \A n \in Sockets :
        (req_sockets[n].handled /\ req_sockets[n].frame[1] \notin KnownTags) =>
            /\ req_sockets[n].cb = <<>>
            /\ req_sockets[n].reply = NoReply

\* a request of an unknown type was served after a known one got its reply
C20_Witness ==
    \E n, m \in Sockets :
        /\ req_sockets[n].handled /\ req_sockets[n].frame[1] \notin KnownTags
        /\ req_sockets[n].reply = NoReply
        /\ req_sockets[m].handled /\ req_sockets[m].reply # NoReply

\* C21: the sub-process performs the startup-args exchange exactly once,
\* before the server object is constructed; the server is constructed with
\* exactly the received arguments plus the five forwarding callbacks;
\* start_server is called exactly once after that; and the first request the
\* sub-process sends is the startup-args request.  A module body that has
\* ended or is serving has done all of it.
C21_StartupOrdering ==
    /\ subprocess.exchanges <= 1
    /\ subprocess.server.built =>
          /\ subprocess.exchanges = 1
          /\ subprocess.server.kwargs = server_subprocess_args
          /\ subprocess.server.callbacks = ForwardingCallbacks
    /\ subprocess.started <= 1
    /\ subprocess.started = 1 => subprocess.server.built
    /\ subprocess.own # 0 => req_sockets[subprocess.own].call = ArgsCall
    /\ subprocess.pc \in {"raised", "serving"} =>
          subprocess.exchanges = 1 /\ subprocess.started = 1

\* C22: in safe mode with the keys database attached, after startup loading
\* and after any calls of add_worker, authenticate_and_add_worker and
\* remove_worker, the keys stored in the database are exactly the allowed
\* workers, each stored once.
C22_KeyStoreInSync ==
    (do_public_key_auth /\ public_keys_db.attached) =>
        /\ ListSet(public_keys_db.docs) = AllowedSet
        /\ \A i, j \in 1..Len(public_keys_db.docs) :
              public_keys_db.docs[i] = public_keys_db.docs[j] => i = j

\* a worker was removed and the database still holds a key
C22_Witness ==
    /\ do_public_key_auth /\ public_keys_db.attached
    /\ last.op = "remove_worker" /\ last.ok
    /\ public_keys_db.docs # <<>>

\* C23: admin_add_worker for a key whose worker is already allowed returns
\* the already-exists error, for a malformed key the unable-to-validate
\* error, a different one; in both cases no registration status changes and
\* the register callback is not invoked; admin_delete_worker and
\* admin_set_worker_status for an id that is not allowed return their
\* not-found error, invoke no callback and change nothing.
C23_AdminErrors ==
    [][ ~UNCHANGED <<last, wmvars>> =>
        LET id == IF do_public_key_auth THEN last'.arg ELSE UnauthId(clock) IN
        /\ last'.op = "admin_add_worker" =>
              /\ InList(id, allowed_workers) => last'.ret = "already exists"
              /\ (do_public_key_auth /\ ~IsValidKey(last'.arg)) =>
                    last'.ret = "unable to validate"
              /\ last'.ret \in {"already exists", "unable to validate"} =>
                    /\ last'.cb = <<>>
                    /\ registered_workers' = registered_workers
                    /\ allowed_workers' = allowed_workers
              /\ last'.ret = "already exists" => InList(id, allowed_workers)
              /\ last'.ret = "unable to validate" => ~IsValidKey(last'.arg)
        /\ (last'.op \in {"admin_delete_worker", "admin_set_worker_status"}
              /\ ~InList(last'.arg, allowed_workers)) =>
              /\ last'.ret = INVALID_WORKER
              /\ last'.cb = <<>>
              /\ UNCHANGED wmvars
    ]_vars

\* the admin tried to add, as unregistered, a worker that is allowed and
\* registered, and got the already-exists error
C23_Witness ==
    /\ do_public_key_auth
    /\ last.op = "admin_add_worker" /\ last.ret = "already exists"
    /\ ~last.val
    /\ is_worker_registered(WM, last.arg)

\* C24: in safe mode add_worker with a malformed public key returns
\* (INVALID_WORKER, False), raises nothing, and adds nothing to public_keys,
\* allowed_workers, registered_workers or the keys database.
C24_MalformedKeyRejected ==
    [][ (do_public_key_auth /\ last'.op = "add_worker"
           /\ ~IsValidKey(last'.arg) /\ ~UNCHANGED <<last, wmvars>>) =>
        /\ last'.ret = INVALID_WORKER
        /\ ~last'.ok
        /\ UNCHANGED wmvars
    ]_vars

\* a malformed key was refused by a manager that holds a worker
C24_Witness ==
    /\ do_public_key_auth
    /\ last.op = "add_worker" /\ last.arg = BadKey
    /\ last.ret = INVALID_WORKER /\ ~last.ok
    /\ allowed_workers # <<>>

\* C25: with authentication disabled authenticate_worker returns True for
\* every public key and every signed phrase, whatever the registry holds and
\* whether or not the identity is allowed; it raises nothing.
C25_UnsafeModeAccepts ==
    (~do_public_key_auth /\ last.op = "authenticate_worker") =>
        (last.ok /\ last.ret # EXCEPTION)

\* an identity that is not allowed was accepted with a phrase that is not
\* hex text, by a manager that holds another worker
C25_Witness ==
    /\ ~do_public_key_auth
    /\ last.op = "authenticate_worker" /\ last.ok
    /\ ~InList(last.arg, allowed_workers)
    /\ last.sig = "nonhex"
    /\ allowed_workers # <<>>

\* a wait the handler of a later request has superseded: its entry was
\* popped and the terminated message put on its queue (lines 517-522)
Cancelled(r) == Got(r, EXISTING_REQUEST_TERMINATED)

C28_DeliverAfterStale ==
    [][ \A r \in Requests :
          /\ (greenlets[r].g = "scheduled" /\ greenlets'[r].g = "sleeping") =>
                /\ is_global_model_most_recent(greenlets[r].version)
                /\ greenlets'[r].body = greenlets[r].body
                /\ greenlets'[r].log = greenlets[r].log
                /\ model_version_req_dict' = model_version_req_dict
          /\ greenlets'[r].log # greenlets[r].log =>
                /\ ~is_global_model_most_recent(greenlets[r].version)
                /\ greenlets[r].log = <<>>
                /\ greenlets'[r].log = <<return_global_model_callback,
                                         <<"put", GLOBAL_MODEL_UPDATED_STRING>>,
                                         <<"put", StopIteration>>>>
                /\ greenlets'[r].g = "done"
          /\ (greenlets'[r].g = "done" /\ greenlets[r].g # "done") =>
                greenlets'[r].log # greenlets[r].log
    ]_vars

\* a poll task has delivered the version that followed the one its worker
\* had
C28_Witness ==
    \E r \in Requests :
        /\ greenlets[r].g = "done"
        /\ greenlets[r].version = 0 /\ global_model_version = 1
        /\ Got(r, GLOBAL_MODEL_UPDATED_STRING)
        /\ greenlets[r].log[1] = return_global_model_callback

\* C30: a wait request from a worker that is not allowed, whose signed
\* phrase does not verify, or that is not registered is not accepted and
\* changes neither the table, the poll tasks, their queues nor the pending
\* kills: it supersedes nothing.
C30_RejectedWaitNoEffect ==
    [][ (/\ last' # last
         /\ last'.op = "notify_me_if_gm_version_updated"
         /\ \/ ~is_worker_allowed(WM, last'.arg)
            \/ ~verify_challenge(WM, last'.arg, last'.sig).ok
            \/ ~is_worker_registered(WM, last'.arg)) =>
        /\ last'.ret # QUEUE
        /\ UNCHANGED engvars
    ]_vars

\* a request was rejected while its worker has a live wait in the table
C30_Witness ==
    /\ last.op = "notify_me_if_gm_version_updated"
    /\ last.ret \in {INVALID_WORKER, UNREGISTERED_WORKER}
    /\ \E r \in Requests :
          greenlets[r].worker = last.arg /\ Live(r) /\ InTable(r)

\* the list of a worker in the table, and its Greenlets with their queues
EntryOf(w) ==
    IF w \in DOMAIN model_version_req_dict THEN model_version_req_dict[w]
    ELSE <<>>
ChannelsOf(w) ==
    [r \in {q \in Requests : greenlets[q].worker = w} |-> greenlets[r]]
\* the workers a step is made for: the worker of a wait request accepted
\* (a Greenlet is made, or the handler blocks in or returns from the kill)
\* and the worker of a poll task that went to sleep or delivered
Actors ==
    {greenlets'[r].worker : r \in (Len(greenlets) + 1)..Len(greenlets')}
    \cup {h.worker : h \in (killers' \ killers) \cup (killers \ killers')}
    \cup {greenlets[r].worker :
            r \in {q \in Requests : /\ greenlets'[q].g # greenlets[q].g
                                    /\ greenlets'[q].g \in {"sleeping", "done"}}}

\* C29: a wait request, a supersession or a delivery for one worker leaves
\* the table entry, the poll tasks and the queues of every other worker as
\* they were.
C29_PerWorkerIndependence ==
    [][ /\ Cardinality(Actors) <= 1
        /\ \A w \in ValidKeys :
              w \notin Actors =>
                 /\ EntryOf(w)' = EntryOf(w)
                 /\ ChannelsOf(w)' = ChannelsOf(w)
    ]_vars

\* a wait of one worker was superseded while an older wait of the other
\* worker is still live and in the table
C29_Witness ==
    \E r1, r2 \in Requests :
        /\ r1 < r2
        /\ greenlets[r1].worker # greenlets[r2].worker
        /\ Live(r1) /\ InTable(r1) /\ ~Cancelled(r1)
        /\ Cancelled(r2)

RECURSIVE Alternates(_, _)
Alternates(workers, cb) ==
    IF cb = <<>> THEN TRUE
    ELSE LET c == Head(cb) IN
         /\ c[1] = "register_worker_callback" => c[2] \notin workers
         /\ c[1] = "unregister_worker_callback" => c[2] \in workers
         /\ Alternates(ApplyCallbacks(workers, <<c>>), Tail(cb))

\* the workers the registry holds as allowed and registered
RegisteredSet == {w \in AllowedSet : is_worker_registered(WM, w)}

\* C32: for every worker the register and unregister callbacks the
\* application sees alternate, starting with register, and after each
\* operation the workers whose last callback was register are exactly the
\* allowed workers the registry holds as registered.
C32_CallbacksAlternate ==
    [][ /\ ~UNCHANGED <<last, app_workers>> => Alternates(app_workers, last'.cb)
        /\ RegisteredSet' = app_workers'
    ]_vars

\* the application saw unregister for a registered worker the admin
\* deleted, and still holds another worker
C32_Witness ==
    /\ last.op = "admin_delete_worker"
    /\ last.cb = <<unregister_worker_callback(last.arg)>>
    /\ last.arg \notin app_workers
    /\ app_workers # {}

\* C33: in authenticated mode authenticate_and_add_worker leaves the allowed
\* workers and the public keys as they were, and it returns the identity of
\* the worker only for a key that is already a public key and already allowed
C33_SelfServiceNeverEnlarges ==
    [][ (do_public_key_auth /\ last' # last
           /\ last'.op = "authenticate_and_add_worker") =>
          /\ allowed_workers' = allowed_workers
          /\ public_keys' = public_keys
          /\ last'.ret = last'.arg =>
                (last'.arg \in public_keys /\ InList(last'.arg, allowed_workers))
      ]_vars

\* a worker the admin added authenticated itself and got its identity back
C33_Witness ==
    /\ do_public_key_auth
    /\ last.op = "authenticate_and_add_worker"
    /\ last.sig = last.arg
    /\ last.ret = last.arg
    /\ InList(last.arg, allowed_workers)

\* C34: in either mode allowed_workers never holds the same identity twice,
\* whatever add_worker, authenticate_and_add_worker and remove_worker calls
\* were made, and after remove_worker(id) the identity id is not allowed
C34_NoDuplicateAllowed ==
    /\ \A i, j \in 1..Len(allowed_workers) :
          allowed_workers[i] = allowed_workers[j] => i = j
    /\ last.op = "remove_worker" => ~is_worker_allowed(WM, last.arg)

\* an allowed worker was removed by one call while another worker stays
\* allowed
C34_Witness ==
    /\ last.op = "remove_worker" /\ last.ok
    /\ last.arg \in DOMAIN registered_workers
    /\ ~is_worker_allowed(WM, last.arg)
    /\ Len(allowed_workers) >= 1

\* C35: in authenticated mode, after startup loading and after every
\* operation of the WorkerManager, the identities in allowed_workers are
\* exactly the keys in public_keys, and the identity add_worker returns for a
\* worker it created is the public key string it was given
C35_AllowedIsPublicKeys ==
    do_public_key_auth =>
        /\ AllowedSet = public_keys
        /\ (last.op = "add_worker" /\ last.ok) =>
              /\ last.ret = last.arg
              /\ InList(last.arg, allowed_workers)
              /\ last.arg \in public_keys

\* add_worker created a worker while another one loaded at startup or added
\* before is allowed
C35_Witness ==
    /\ do_public_key_auth
    /\ last.op = "add_worker" /\ last.ok
    /\ Cardinality(public_keys) = 2
    /\ Len(allowed_workers) = 2

\* the callbacks of the last call that are callback c
CountCb(cb, c) == Cardinality({i \in 1..Len(cb) : cb[i] = c})

\* C36: admin_delete_worker on an allowed worker invokes the unregister
\* callback for it exactly once when the worker was registered and no
\* callback when it was not, and the worker is then not allowed, not
\* registered and without a key; on an id that is not allowed it invokes no
\* callback and changes nothing
C36_AdminDelete ==
    [][(last'.op = "admin_delete_worker" /\ ~UNCHANGED <<last, wmvars>>) =>
          LET id == last'.arg IN
          IF InList(id, allowed_workers)
          THEN /\ Len(last'.cb) = (IF is_worker_registered(WM, id) THEN 1 ELSE 0)
               /\ CountCb(last'.cb, unregister_worker_callback(id))
                     = (IF is_worker_registered(WM, id) THEN 1 ELSE 0)
               /\ last'.ret = id
               /\ ~InList(id, allowed_workers')
               /\ ~(id \in DOMAIN registered_workers' /\ registered_workers'[id])
               /\ id \notin public_keys'
          ELSE /\ last'.cb = <<>>
               /\ last'.ret = INVALID_WORKER
               /\ UNCHANGED <<wmvars, app_workers>>
      ]_vars

\* the admin deleted a worker that was allowed and not registered: no
\* callback
C36_Witness ==
    /\ last.op = "admin_delete_worker" /\ last.ok
    /\ last.cb = <<>>
    /\ ~InList(last.arg, allowed_workers)
    /\ app_workers # {}

\* C37: admin_set_worker_status on an allowed worker invokes the register
\* callback exactly when the status goes from false to true, the unregister
\* callback exactly when it goes from true to false, at most one callback in
\* all, and leaves the worker with the requested status; on an id that is not
\* allowed it invokes no callback and changes nothing
C37_AdminSetStatus ==
    [][(last'.op = "admin_set_worker_status" /\ ~UNCHANGED <<last, wmvars>>) =>
          LET id == last'.arg
              v == last'.val
              was == is_worker_registered(WM, id)
          IN
          IF InList(id, allowed_workers)
          THEN /\ CountCb(last'.cb, register_worker_callback(id))
                     = (IF ~was /\ v THEN 1 ELSE 0)
               /\ CountCb(last'.cb, unregister_worker_callback(id))
                     = (IF was /\ ~v THEN 1 ELSE 0)
               /\ Len(last'.cb) <= 1
               /\ (was = v) => last'.cb = <<>>
               /\ registered_workers'[id] = v
               /\ last'.ret = id
          ELSE /\ last'.cb = <<>>
               /\ last'.ret = INVALID_WORKER
               /\ UNCHANGED <<wmvars, app_workers>>
      ]_vars

\* the admin set a registered worker to not registered: one unregister
\* callback
C37_Witness ==
    /\ last.op = "admin_set_worker_status" /\ last.ok /\ ~last.val
    /\ last.cb = <<unregister_worker_callback(last.arg)>>
    /\ InList(last.arg, allowed_workers)
    /\ ~registered_workers[last.arg]

\* C38: admin_add_worker for a key whose identity is not yet allowed (a
\* valid key in safe mode) returns the identity, makes it allowed with the
\* requested registration status, and invokes the register callback for it
\* exactly once when that status is true and no callback when it is false
C38_AdminAdd ==
    [][(last'.op = "admin_add_worker" /\ ~UNCHANGED <<last, wmvars>>) =>
          LET k == last'.arg
              v == last'.val
              id == generate_id_for_worker(WM, k, clock)
          IN
          (~InList(id, allowed_workers) /\ (do_public_key_auth => IsValidKey(k))) =>
              /\ last'.ret = id
              /\ InList(id, allowed_workers')
              /\ registered_workers'[id] = v
              /\ last'.cb = (IF v THEN <<register_worker_callback(id)>> ELSE <<>>)
              /\ do_public_key_auth => id \in public_keys'
      ]_vars

\* the admin added a new worker as not registered: no callback, and the
\* worker is allowed and not registered
C38_Witness ==
    /\ last.op = "admin_add_worker" /\ last.ok /\ ~last.val
    /\ last.cb = <<>>
    /\ InList(last.ret, allowed_workers)
    /\ ~registered_workers[last.ret]
    /\ last.ret \notin app_workers

\* the documents of the keys database and the lines of the key list file the
\* constructor read
StartDocs == last.data[1]
StartKeyList == last.data[2]

\* C39: after the construction of a safe-mode WorkerManager that loads the
\* last session, the allowed workers are exactly the valid keys among the
\* database documents and the key list lines, each once and not registered,
\* whatever malformed keys stand among them, and the database holds exactly
\* those keys, each once
C39_StartupLoading ==
    last.op = "init" =>
        LET loaded == (ListSet(StartDocs) \cup ListSet(StartKeyList)) \cap ValidKeys IN
        /\ AllowedSet = loaded
        /\ Len(allowed_workers) = Cardinality(loaded)
        /\ public_keys = loaded
        /\ DOMAIN registered_workers = loaded
        /\ \A w \in loaded : ~is_worker_registered(WM, w)
        /\ public_keys_db.attached
        /\ ListSet(public_keys_db.docs) = loaded
        /\ Len(public_keys_db.docs) = Cardinality(loaded)

\* the database held a valid key twice and the key list a malformed key and
\* another valid key: both valid keys are loaded
C39_Witness ==
    /\ last.op = "init"
    /\ StartDocs = <<"k1", "k1">>
    /\ StartKeyList = <<BadKey, "k2">>
    /\ AllowedSet = {"k1", "k2"}
    /\ Len(public_keys_db.docs) = 2

====
